---- MODULE Spec2Model ----
(***************************************************************************)
(* minprinter backend (src/minprinter/backend.py): discovery of invoice    *)
(* PDFs, field extraction from the recovered text, aggregation into the    *)
(* grouped spreadsheet, and the A4 placement geometry.                     *)
(*                                                                         *)
(* Strings that the program compares, slices or converts are sequences of  *)
(* Unicode code points, so that str/int conversions, slicing and the       *)
(* lexicographic order of sort keys are computed, not assumed.             *)
(***************************************************************************)
EXTENDS Integers, Sequences, FiniteSets, TLC

VARIABLES
    \* a call of parse_text
    text_str,       \* the recovered text handed to parse_text
    parse_out,      \* what the call produced: return value, exception, log records
    \* a call of box_from_a4
    box_image_size, \* (width, height) of the source image
    box_a4_size,    \* (width, height) of the page
    box_top,        \* TRUE: upper half, FALSE: lower half
    box_out,        \* what the call returned
    pasted,         \* the paste calls made on the page so far, in order
    \* a run of print_invoice
    input_dir,      \* the *.pdf files under the input directory, in glob order
    recursive,      \* parameter recursive
    do_analysis,    \* parameter do_analysis
    pc,             \* where the run is
    pdfs,           \* what find_pdfs returned
    queried,        \* the files whose page count was queried, in order
    texted,         \* the paths handed to to_text_str, in order
    results,        \* the tuples collected by the extraction loop
    sheet_rows,     \* the sorted rows handed to save_to_excel
    xlsx,           \* <<workbook>> once the spreadsheet is saved, else <<>>
    out_pdf,        \* the pages of the composed document once saved, else <<>>
    exc,            \* the exception that ended the run, if any
    text_env,       \* how pdftotext and the decoding of its output behave in this run
    tmp_files,      \* the temporary text files that exist
    \* the window of MPrinterGUI
    widgets,        \* what the input widgets hold
    settings,       \* self.settings
    was_run,        \* self.was_run
    last_settings,  \* self.last_settings
    invoked,        \* the settings of every call of print_invoice so far
    gui_out,        \* the last press of Run: error boxes, whether print_invoice was called
    runs            \* the number of times Run was pressed

parseVars == <<text_str, parse_out>>
boxVars == <<box_image_size, box_a4_size, box_top, box_out, pasted>>
runVars == <<input_dir, recursive, do_analysis, pc, pdfs, queried, texted, results,
             sheet_rows, xlsx, out_pdf, exc, text_env, tmp_files>>
guiVars == <<widgets, settings, was_run, last_settings, invoked, gui_out, runs>>
vars == <<parseVars, boxVars, runVars, guiVars>>

(***************************************************************************)
(* Bounds of the model.                                                    *)
(***************************************************************************)
MaxLines == 4       \* lines of a text handed to parse_text
MaxFiles == 3       \* files under the input directory
MaxImage == 9       \* width and height of a source image
MaxA4W == 7         \* width of the page
MaxA4H == 14        \* height of the page
MaxPageImage == 4   \* width and height of an image placed on a shared page
MaxPageW == 4       \* width of a page that takes two images
MaxPageH == 8       \* height of a page that takes two images
MaxRuns == 2        \* presses of the Run button

(***************************************************************************)
(* Code points.                                                            *)
(***************************************************************************)
CJKLo == 19968
CJKHi == 40959
ChSpace == 32
ChDot == 46
ChZero == 48
ChNine == 57

IsCJK(c) == CJKLo <= c /\ c <= CJKHi
IsDigit(c) == ChZero <= c /\ c <= ChNine
IsSpace(c) == c = ChSpace

Min(S) == CHOOSE x \in S : \A y \in S : x <= y

\* Length of the longest prefix of s whose characters all satisfy the class
\* (a greedy quantifier of the regular expression).
RunCJK(s) ==
    IF \A i \in DOMAIN s : IsCJK(s[i]) THEN Len(s)
    ELSE Min({i \in DOMAIN s : ~IsCJK(s[i])}) - 1
RunDigits(s) ==
    IF \A i \in DOMAIN s : IsDigit(s[i]) THEN Len(s)
    ELSE Min({i \in DOMAIN s : ~IsDigit(s[i])}) - 1

(***************************************************************************)
(* parse_text.  A text is a sequence of lines; a line is the label that    *)
(* starts a field (lab) and the characters that follow the label and its   *)
(* separator (rest).  NoMatch is the None of re.search.                    *)
(***************************************************************************)
NoMatch == <<>>

\* ([一-鿿]{2,})\s+
CaptureName(rest) ==
    LET n == RunCJK(rest)
    IN IF n >= 2 /\ Len(rest) > n /\ IsSpace(rest[n + 1])
       THEN SubSeq(rest, 1, n) ELSE NoMatch
\* (\d{11})
CapturePhone(rest) ==
    IF RunDigits(rest) >= 11 THEN SubSeq(rest, 1, 11) ELSE NoMatch
\* (\d{6})
CaptureDate(rest) ==
    IF RunDigits(rest) >= 6 THEN SubSeq(rest, 1, 6) ELSE NoMatch
\* (\d+\.\d{2})
CaptureAmount(rest) ==
    LET n == RunDigits(rest)
    IN IF /\ n >= 1 /\ Len(rest) >= n + 3 /\ rest[n + 1] = ChDot
          /\ IsDigit(rest[n + 2]) /\ IsDigit(rest[n + 3])
       THEN SubSeq(rest, 1, n + 3) ELSE NoMatch

user_name_regex(line) ==
    IF line.lab = "mingcheng" THEN CaptureName(line.rest) ELSE NoMatch
user_phoneno_regex(line) ==
    IF line.lab = "haoma" THEN CapturePhone(line.rest) ELSE NoMatch
bill_date_regex(line) ==
    IF line.lab \in {"zhangqi", "zhangqi_alt"} THEN CaptureDate(line.rest) ELSE NoMatch
bill_amount_regex(line) ==
    IF line.lab = "xiaoxie" THEN CaptureAmount(line.rest) ELSE NoMatch

\* re.search(regex, text_str).group(1): the capture of the leftmost match.
SearchName(t) ==
    LET hits == {i \in DOMAIN t : user_name_regex(t[i]) # NoMatch}
    IN IF hits = {} THEN NoMatch ELSE user_name_regex(t[Min(hits)])
SearchPhone(t) ==
    LET hits == {i \in DOMAIN t : user_phoneno_regex(t[i]) # NoMatch}
    IN IF hits = {} THEN NoMatch ELSE user_phoneno_regex(t[Min(hits)])
SearchDate(t) ==
    LET hits == {i \in DOMAIN t : bill_date_regex(t[i]) # NoMatch}
    IN IF hits = {} THEN NoMatch ELSE bill_date_regex(t[Min(hits)])
SearchAmount(t) ==
    LET hits == {i \in DOMAIN t : bill_amount_regex(t[i]) # NoMatch}
    IN IF hits = {} THEN NoMatch ELSE bill_amount_regex(t[Min(hits)])

\* Exceptions and log records.  A message is the list of the parts it is
\* formatted from: literal text (lit) and formatted arguments (arg).
NoExc == [type |-> "None", message |-> <<>>]
MinvoiceException(message) == [type |-> "MinvoiceException", message |-> message]
LogRec(level, what) == [level |-> level, what |-> what]
NoReturn == <<>>

\* A variant of TruncateName that cuts only names longer than four characters.
TruncateNameOverFour(user_name) ==
    IF Len(user_name) > 4
    THEN SubSeq(user_name, Len(user_name) - 2, Len(user_name))
    ELSE user_name

\* The name parse_text returns for a matched run.
TruncateName(user_name) ==
    IF Len(user_name) >= 4
    THEN SubSeq(user_name, Len(user_name) - 2, Len(user_name))
    ELSE user_name

\* A variant of AnyFailFlag in which a missing amount does not set the flag.
AnyFailFlagAmountUnset(r1, r2, r3, r4) ==
    r1 = NoMatch \/ r2 = NoMatch \/ r3 = NoMatch

\* The condition under which parse_text raises instead of returning.
AnyFailFlag(r1, r2, r3, r4) ==
    r1 = NoMatch \/ r2 = NoMatch \/ r3 = NoMatch \/ r4 = NoMatch

\* The message of the exception parse_text raises.
ParseFailure(t) ==
    MinvoiceException(<<[lit |-> "Parse invoice text failed: "], [arg |-> t],
                        [lit |-> ", check logs"]>>)

\* A variant of ParseLogs that reports only the first field it misses.
ParseLogsFirstOnly(r1, r2, r3, r4) ==
    IF r1 = NoMatch THEN <<LogRec("error", "Cannot extract user name")>>
    ELSE IF r2 = NoMatch THEN <<LogRec("error", "Cannot extract user phone number")>>
    ELSE IF r3 = NoMatch THEN <<LogRec("error", "Cannot extract user billing date")>>
    ELSE IF r4 = NoMatch THEN <<LogRec("error", "Cannot extract user billing amount")>>
    ELSE <<>>

ParseLogs(r1, r2, r3, r4) ==
      (IF r1 = NoMatch THEN <<LogRec("error", "Cannot extract user name")>>
       ELSE IF Len(r1) >= 4 THEN <<LogRec("warning", "Name is too long, use the last three chars")>>
       ELSE <<>>)
   \o (IF r2 = NoMatch THEN <<LogRec("error", "Cannot extract user phone number")>> ELSE <<>>)
   \o (IF r3 = NoMatch THEN <<LogRec("error", "Cannot extract user billing date")>> ELSE <<>>)
   \o (IF r4 = NoMatch THEN <<LogRec("error", "Cannot extract user billing amount")>> ELSE <<>>)

parse_text(t) ==
    LET r1 == SearchName(t)
        r2 == SearchPhone(t)
        r3 == SearchDate(t)
        r4 == SearchAmount(t)
    IN IF ~AnyFailFlag(r1, r2, r3, r4)
       THEN [ret |-> <<TruncateName(r1), r2, r3, r4>>, exc |-> NoExc,
             logs |-> ParseLogs(r1, r2, r3, r4)]
       ELSE [ret |-> NoReturn, exc |-> ParseFailure(t),
             logs |-> ParseLogs(r1, r2, r3, r4)]

(***************************************************************************)
(* Python floats.  box_from_a4 divides with "/", which yields an IEEE-754   *)
(* binary64 value rounded to nearest-even, and truncates with int().  A    *)
(* positive double is [hi, lo, e]: the 53-bit significand hi * 2^27 + lo    *)
(* (2^25 <= hi < 2^26, 0 <= lo < 2^27) times 2^e.  Only positive, normal    *)
(* values occur: image and page sizes are positive integers below 2^26.    *)
(***************************************************************************)
\* 2^n for 0 <= n <= 30.
Pow2(n) ==
    <<1, 2, 4, 8, 16, 32, 64, 128, 256, 512, 1024, 2048, 4096, 8192, 16384, 32768,
      65536, 131072, 262144, 524288, 1048576, 2097152, 4194304, 8388608, 16777216,
      33554432, 67108864, 134217728, 268435456, 536870912, 1073741824>>[n + 1]

LimbBits == 27
Limb == 134217728                  \* 2^27
SigTop == 33554432                 \* 2^25: weight of the leading significand bit in hi
SigBits == 53

\* Index of the highest set bit of n >= 1.
RECURSIVE TopBit(_)
TopBit(n) == IF n <= 1 THEN 0 ELSE 1 + TopBit(n \div 2)

\* float(n) for an integer 1 <= n < 2^26 (exact).
FloatOfInt(n) ==
    LET p == TopBit(n)
    IN [hi |-> n * Pow2(LimbBits - 2 - p), lo |-> 0, e |-> p - (SigBits - 1)]

\* 1.0
FloatOne == [hi |-> SigTop, lo |-> 0, e |-> 1 - SigBits]

\* Two-limb integers <<h, l>>.
LimbGeq(a, b) == a[1] > b[1] \/ (a[1] = b[1] /\ a[2] >= b[2])
LimbSub(a, b) ==
    IF a[2] >= b[2] THEN <<a[1] - b[1], a[2] - b[2]>>
    ELSE <<a[1] - b[1] - 1, a[2] + Limb - b[2]>>
LimbDbl(a) == <<2 * a[1] + (2 * a[2]) \div Limb, (2 * a[2]) % Limb>>
LimbInc(a) == IF a[2] + 1 = Limb THEN <<a[1] + 1, 0>> ELSE <<a[1], a[2] + 1>>

\* One step of binary long division, on <<quotient, remainder, divisor>>: the
\* remainder is doubled and the divisor subtracted from it when it fits, which
\* gives the next quotient bit.  (A function, so that TLC computes each step
\* once, from values.)
LimbPair == Nat \X Nat
SubtractIfFits[s \in LimbPair \X LimbPair \X LimbPair] ==
    IF LimbGeq(s[2], s[3]) THEN <<LimbInc(s[1]), LimbSub(s[2], s[3]), s[3]>> ELSE s
DivStep[s \in LimbPair \X LimbPair \X LimbPair] ==
    SubtractIfFits[<<LimbDbl(s[1]), LimbDbl(s[2]), s[3]>>]
DivStep2(s) == DivStep[DivStep[s]]
DivStep4(s) == DivStep2(DivStep2(s))
DivStep8(s) == DivStep4(DivStep4(s))
DivStep16(s) == DivStep8(DivStep8(s))
DivStep32(s) == DivStep16(DivStep16(s))
DivStep52(s) == DivStep32(DivStep16(DivStep4(s)))

\* The significand and exponent adjustment of xs / ys for two significands:
\* 53 quotient bits, then rounding on the remainder (half to even).
Double == [hi : Nat, lo : Nat, e : Int]
RoundUp[s \in LimbPair \X LimbPair \X LimbPair] ==
    IF s[2] = s[3] THEN s[1][2] % 2 = 1 ELSE LimbGeq(s[2], s[3])
RoundQuotient[s \in LimbPair \X LimbPair \X LimbPair] ==
    IF RoundUp[<<s[1], LimbDbl(s[2]), s[3]>>] THEN LimbInc(s[1]) ELSE s[1]
Normalized[me \in LimbPair \X Int] ==
    IF me[1][1] = 2 * SigTop
    THEN [hi |-> SigTop, lo |-> 0, e |-> me[2] + 1]
    ELSE [hi |-> me[1][1], lo |-> me[1][2], e |-> me[2]]
FloatDivide[xy \in Double \X Double] ==
    LET x == xy[1]
        y == xy[2]
        xs == <<x.hi, x.lo>>
        ys == <<y.hi, y.lo>>
        ge == LimbGeq(xs, ys)
        m == IF ge THEN RoundQuotient[DivStep52(<<<<0, 1>>, LimbSub(xs, ys), ys>>)]
                   ELSE RoundQuotient[DivStep[DivStep52(<<<<0, 0>>, xs, ys>>)]]
        e == x.e - y.e - (IF ge THEN SigBits - 1 ELSE SigBits)
    IN Normalized[<<m, e>>]

\* x / y, correctly rounded.
FloatDiv(x, y) == FloatDivide[<<x, y>>]

\* x * 2 (exact).
FloatTwice(x) == [x EXCEPT !.e = @ + 1]

\* x > y.
FloatGt(x, y) ==
    \/ x.e > y.e
    \/ x.e = y.e /\ ~LimbGeq(<<y.hi, y.lo>>, <<x.hi, x.lo>>)

\* int(x) for a positive double below 2^26.
IntOfFloat(x) ==
    LET shift == 0 - x.e - LimbBits
    IN IF shift >= LimbBits THEN 0
       ELSE IF shift >= 0 THEN x.hi \div Pow2(shift)
       ELSE x.hi * Pow2(0 - shift) + x.lo \div Pow2(0 - x.e)

\* int(n / d) for integers n and d > 0 where n / d is exact in binary64 up to
\* the truncated fraction (d a power of two): truncation toward zero.
IntQuot(n, d) == IF n >= 0 THEN n \div d ELSE 0 - ((0 - n) \div d)

(***************************************************************************)
(* box_from_a4: the paste position and the resize size (NoResize: None)    *)
(* of an image on its half of the page.                                    *)
(***************************************************************************)
NoResize == <<>>

\* Lines 199 and 206: the side that is cut down to fit.
ResizedHeight(im_h, w_r) == IntOfFloat(FloatDiv(FloatOfInt(im_h), w_r))
ResizedWidth(im_w, h_r) == IntOfFloat(FloatDiv(FloatOfInt(im_w), h_r))

\* Lines 213-217: the position of an image that needs no resize.
BoxUnscaled(im_w, im_h, a4_w, a4_h, top_or_bottom) ==
    IF top_or_bottom
    THEN <<IntQuot(a4_w - im_w, 2), IntQuot(a4_h - im_h, 4)>>
    ELSE <<IntQuot(a4_w - im_w, 2), IntQuot(a4_h - im_h, 2) + im_h>>

\* Lines 199-211: the position of an image resized to <<im_re_w, im_re_h>>;
\* wider: the branch "width is much larger".
BoxResized[a \in Nat \X Nat \X BOOLEAN \X BOOLEAN \X Nat \X Nat] ==
    LET a4_w == a[1]
        a4_h == a[2]
        top_or_bottom == a[3]
        wider == a[4]
        im_re_w == a[5]
        im_re_h == a[6]
    IN [box_top_left |->
          IF wider
          THEN IF top_or_bottom
               THEN <<0, IntQuot(a4_h - im_re_h * 2, 4)>>
               ELSE <<0, IntQuot(a4_h - im_re_h * 2, 2) + im_re_h>>
          ELSE IF top_or_bottom
               THEN <<IntQuot(a4_w - im_re_w, 2), 0>>
               ELSE <<IntQuot(a4_w - im_re_w, 2), im_re_h>>,
        im_re_size |-> <<im_re_w, im_re_h>>]

\* Lines 196-218, given the two ratios.
BoxGivenRatios[a \in Nat \X Nat \X Nat \X Nat \X BOOLEAN \X Double \X Double] ==
    LET im_w == a[1]
        im_h == a[2]
        a4_w == a[3]
        a4_h == a[4]
        top_or_bottom == a[5]
        w_r == a[6]
        h_r == a[7]
    IN IF FloatGt(w_r, FloatOne) \/ FloatGt(h_r, FloatOne)
       THEN IF FloatGt(w_r, h_r)
            THEN BoxResized[<<a4_w, a4_h, top_or_bottom, TRUE,
                              a4_w, ResizedHeight(im_h, w_r)>>]
            ELSE BoxResized[<<a4_w, a4_h, top_or_bottom, FALSE,
                              ResizedWidth(im_w, h_r), IntQuot(a4_h, 2)>>]
       ELSE [box_top_left |-> BoxUnscaled(im_w, im_h, a4_w, a4_h, top_or_bottom),
             im_re_size |-> NoResize]

box_from_a4(image_size, a4_size, top_or_bottom) ==
    LET im_w == image_size[1]
        im_h == image_size[2]
        a4_w == a4_size[1]
        a4_h == a4_size[2]
        w_r == FloatDiv(FloatOfInt(im_w), FloatOfInt(a4_w))
        h_r == FloatTwice(FloatDiv(FloatOfInt(im_h), FloatOfInt(a4_h)))
    IN BoxGivenRatios[<<im_w, im_h, a4_w, a4_h, top_or_bottom, w_r, h_r>>]

(***************************************************************************)
(* Conversions and ordering of Python values.                              *)
(***************************************************************************)
\* int(s) for a string of decimal digits.
RECURSIVE IntOfStr(_)
IntOfStr(s) ==
    IF s = <<>> THEN 0
    ELSE 10 * IntOfStr(SubSeq(s, 1, Len(s) - 1)) + (s[Len(s)] - ChZero)

\* str(n) for an integer n >= 0.
RECURSIVE StrOfInt(_)
StrOfInt(n) ==
    IF n < 10 THEN <<ChZero + n>> ELSE Append(StrOfInt(n \div 10), ChZero + (n % 10))

\* float(s) for s matching \d+\.\d{2}, held exactly, in hundredths.
FloatOfAmount(s) ==
    LET n == Len(s)
    IN 100 * IntOfStr(SubSeq(s, 1, n - 3)) + IntOfStr(SubSeq(s, n - 1, n))

\* a < b for two strings (by code point, a proper prefix first).
StrLess(a, b) ==
    LET diff == {i \in DOMAIN a \cap DOMAIN b : a[i] # b[i]}
    IN IF diff = {} THEN Len(a) < Len(b) ELSE a[Min(diff)] < b[Min(diff)]

\* a < b for two tuples of strings of the same length.
TupleLess(a, b) ==
    LET diff == {i \in DOMAIN a : a[i] # b[i]}
    IN IF diff = {} THEN FALSE ELSE StrLess(a[Min(diff)], b[Min(diff)])

\* operator.itemgetter(*by)(row); columns are counted from 1 here, so the
\* program's (0, 1, 5) is <<1, 2, 6>>.
ItemGetter(row, by) == [k \in DOMAIN by |-> row[by[k]]]

\* A variant of InsertSorted that puts an element in front of the elements
\* with an equal key (an unstable sort).
InsertSortedInFront(s, x, by) ==
    LET p == Cardinality({i \in DOMAIN s :
                            TupleLess(ItemGetter(s[i], by), ItemGetter(x, by))})
    IN SubSeq(s, 1, p) \o <<x>> \o SubSeq(s, p + 1, Len(s))

\* sorted(l, key=itemgetter(*by)): stable, so an element goes behind the
\* elements before it whose key is not greater.
InsertSorted(s, x, by) ==
    LET p == Cardinality({i \in DOMAIN s :
                            ~TupleLess(ItemGetter(x, by), ItemGetter(s[i], by))})
    IN SubSeq(s, 1, p) \o <<x>> \o SubSeq(s, p + 1, Len(s))
RECURSIVE Sorted(_, _)
Sorted(l, by) ==
    IF l = <<>> THEN <<>>
    ELSE InsertSorted(Sorted(SubSeq(l, 1, Len(l) - 1), by), l[Len(l)], by)

RECURSIVE SumSeq(_)
SumSeq(s) == IF s = <<>> THEN 0 ELSE s[1] + SumSeq(Tail(s))

(***************************************************************************)
(* year_and_quarter, groupby, save_to_excel.                               *)
(***************************************************************************)
year_and_quarter(date_str) ==
    LET year == IntOfStr(SubSeq(date_str, 1, 4))
        month == IntOfStr(SubSeq(date_str, 5, 6))
        quarter == (month - 1) \div 3 + 1
    IN <<year, quarter>>

\* itertools.groupby over the list sorted by the key: the maximal runs of
\* consecutive rows with equal keys, in order.
groupby(l, by) ==
    LET ll == Sorted(l, by)
        starts == {i \in DOMAIN ll :
                     i = 1 \/ ItemGetter(ll[i], by) # ItemGetter(ll[i - 1], by)}
        start(k) == CHOOSE i \in starts : Cardinality({j \in starts : j <= i}) = k
        n == Cardinality(starts)
    IN [k \in 1..n |->
          SubSeq(ll, start(k), IF k = n THEN Len(ll) ELSE start(k + 1) - 1)]

NoValue == <<>>
MergedCells(start_row, end_row, column, value) ==
    [start_row |-> start_row, end_row |-> end_row, column |-> column, value |-> value]

\* First data row of the sheet (row 1 is the header).
FirstDataRow == 2

\* A variant of group_row_pointers that starts on the header row.
group_row_pointers_from_header(groups) ==
    [i \in 1..(Len(groups) + 1) |->
        1 + SumSeq([j \in 1..(i - 1) |-> Len(groups[j])])]

\* list(itertools.accumulate([2] + group_sizes)).
group_row_pointers(groups) ==
    [i \in 1..(Len(groups) + 1) |->
        FirstDataRow + SumSeq([j \in 1..(i - 1) |-> Len(groups[j])])]

\* One "groupby ... sum and merge" pass of save_to_excel: for each group a
\* merge of the value column carrying the group's sum (when value_column is
\* given) and a merge of the key column without a value.
MergePass(rst, by, value_column, key_column) ==
    LET groups == groupby(rst, by)
        ptr == group_row_pointers(groups)
        amounts(g) == [j \in DOMAIN g |-> g[j][7]]
        one(i) ==
            (IF value_column = NoValue THEN <<>>
             ELSE <<MergedCells(ptr[i], ptr[i + 1] - 1, value_column[1],
                                <<SumSeq(amounts(groups[i]))>>)>>)
            \o <<MergedCells(ptr[i], ptr[i + 1] - 1, key_column, NoValue)>>
        RECURSIVE upto(_)
        upto(i) == IF i = 0 THEN <<>> ELSE upto(i - 1) \o one(i)
    IN upto(Len(groups))

\* The workbook save_to_excel saves: the data cells of columns 1..5 (row i + 1
\* holds rst[i]) and the merges in the order they are made.
save_to_excel(rst) ==
    [cells |-> [i \in DOMAIN rst |->
                   <<rst[i][1], rst[i][2], rst[i][6], rst[i][5], rst[i][7]>>],
     merges |-> MergePass(rst, <<1, 2, 6>>, <<6>>, 3)
                \o MergePass(rst, <<1, 2>>, <<7>>, 2)
                \o MergePass(rst, <<1>>, NoValue, 1)]

(***************************************************************************)
(* find_pdfs.  The directory is the list of its *.pdf files in glob order; *)
(* a file is its path <<subdirectory, basename>> ("" : directly under the   *)
(* root), its page count and the text pdftotext recovers from it.          *)
(***************************************************************************)
basename(pdf_path) == pdf_path[2]

glob(dir, recurse) ==
    IF recurse THEN dir ELSE SelectSeq(dir, LAMBDA f : f.path[1] = "")

NotExcluded(f, exclude_basenames) == basename(f.path) \notin exclude_basenames

\* A variant of find_pdfs that queries the page count of a file before it
\* looks at the exclude set.
find_pdfs_query_first(pdfs_dir, recurse, exclude_basenames) ==
    LET globbed == glob(pdfs_dir, recurse)
        bad == {i \in DOMAIN globbed : globbed[i].pages # 1}
    IN IF globbed = <<>>
       THEN [ret |-> <<>>, queried |-> <<>>,
             exc |-> MinvoiceException(<<[lit |-> "No invoice PDF file found!"]>>)]
       ELSE IF bad # {}
       THEN [ret |-> <<>>, queried |-> SubSeq(globbed, 1, Min(bad)),
             exc |-> MinvoiceException(<<[lit |-> "Fatal error in processing PDF file "],
                                         [arg |-> globbed[Min(bad)].path],
                                         [lit |-> ": the invoice should be one page per file"]>>)]
       ELSE [ret |-> SelectSeq(globbed, LAMBDA f : NotExcluded(f, exclude_basenames)),
             queried |-> globbed, exc |-> NoExc]

\* A variant of find_pdfs that skips a file with another page count than 1.
find_pdfs_skipping(pdfs_dir, recurse, exclude_basenames) ==
    LET globbed == glob(pdfs_dir, recurse)
        cand == SelectSeq(globbed, LAMBDA f : NotExcluded(f, exclude_basenames))
    IN IF globbed = <<>>
       THEN [ret |-> <<>>, queried |-> <<>>,
             exc |-> MinvoiceException(<<[lit |-> "No invoice PDF file found!"]>>)]
       ELSE [ret |-> SelectSeq(cand, LAMBDA f : f.pages = 1), queried |-> cand,
             exc |-> NoExc]

find_pdfs(pdfs_dir, recurse, exclude_basenames) ==
    LET globbed == glob(pdfs_dir, recurse)
        cand == SelectSeq(globbed, LAMBDA f : NotExcluded(f, exclude_basenames))
        bad == {i \in DOMAIN cand : cand[i].pages # 1}
    IN IF globbed = <<>>
       THEN [ret |-> <<>>, queried |-> <<>>,
             exc |-> MinvoiceException(<<[lit |-> "No invoice PDF file found!"]>>)]
       ELSE IF bad # {}
       THEN [ret |-> <<>>, queried |-> SubSeq(cand, 1, Min(bad)),
             exc |-> MinvoiceException(<<[lit |-> "Fatal error in processing PDF file "],
                                         [arg |-> cand[Min(bad)].path],
                                         [lit |-> ": the invoice should be one page per file"]>>)]
       ELSE [ret |-> cand, queried |-> cand, exc |-> NoExc]

(***************************************************************************)
(* print_invoice, lines 522-537: the rows handed to save_to_excel.         *)
(***************************************************************************)
SortKey == <<1, 2, 6>>

Row(result) ==
    LET u_name == result[1]
        u_phone == result[2]
        b_date == result[3]
        b_amount == result[4]
        pdf_path == result[5]
        yq == year_and_quarter(b_date)
    IN <<u_name,
         StrOfInt(yq[1]) \o <<24180, 31532>> \o StrOfInt(yq[2]) \o <<23395, 24230>>,
         yq[1], yq[2], b_date, u_phone, FloatOfAmount(b_amount), pdf_path>>

\* A variant of Aggregated without the sort of line 537.
AggregatedUnsorted(rs) == [i \in DOMAIN rs |-> Row(rs[i])]

Aggregated(rs) == Sorted([i \in DOMAIN rs |-> Row(rs[i])], SortKey)

\* A variant of ComposedPages that makes a page only for a full pair of images.
ComposedPagesFullPairs(images) ==
    [k \in 1..(Len(images) \div 2) |->
        [top |-> <<images[2 * k - 1]>>, bottom |-> <<images[2 * k]>>]]

\* to_a4_jpg_pdf: two images per page, the second half empty when the count is odd.
ComposedPages(images) ==
    [k \in 1..((Len(images) + 1) \div 2) |->
        [top |-> <<images[2 * k - 1]>>,
         bottom |-> IF 2 * k <= Len(images) THEN <<images[2 * k]>> ELSE <<>>]]


(***************************************************************************)
(* Texts and files the model is exercised on.                              *)
(***************************************************************************)
Line(lab, rest) == [lab |-> lab, rest |-> rest]
StrZhangSan == <<24352, 19977>>
StrLiSi == <<26446, 22235>>
StrShanDongZhangSan == <<23665, 19996, 24352, 19977>>
StrZhangSanFeng == <<24352, 19977, 20016>>
StrOuYangZhangSanFeng == <<27431, 38451, 24352, 19977, 20016>>
Phone1 == <<49, 51, 56, 48, 48, 48, 48, 48, 48, 48, 49>>
Phone2 == <<49, 51, 57, 48, 48, 48, 48, 48, 48, 48, 50>>
Date202301 == <<50, 48, 50, 51, 48, 49>>
Date202302 == <<50, 48, 50, 51, 48, 50>>
Date202304 == <<50, 48, 50, 51, 48, 52>>
Date202313 == <<50, 48, 50, 51, 49, 51>>
Amount10000 == <<49, 48, 48, 46, 48, 48>>
Amount5000 == <<53, 48, 46, 48, 48>>
Amount3000 == <<51, 48, 46, 48, 48>>

LinePool ==
    { Line("mingcheng", StrZhangSan \o <<32>>),
      Line("mingcheng", StrShanDongZhangSan \o <<32, 32>>),
      Line("mingcheng", StrZhangSanFeng \o <<32>>),
      Line("mingcheng", StrOuYangZhangSanFeng \o <<32>>),
      Line("mingcheng", <<24352>> \o <<32>>),            \* one ideograph: too short
      Line("haoma", Phone1),
      Line("haoma", SubSeq(Phone2, 1, 10)),               \* ten digits
      Line("zhangqi", Date202301),
      Line("zhangqi_alt", Date202304 \o <<32>>),
      Line("xiaoxie", Amount10000),
      Line("xiaoxie", <<49, 48, 48, 46, 53>>) }           \* one fractional digit

RECURSIVE SeqsUpTo(_, _)
SeqsUpTo(S, n) ==
    IF n = 0 THEN {<<>>}
    ELSE LET shorter == SeqsUpTo(S, n - 1)
         IN shorter \cup {Append(s, x) : s \in {q \in shorter : Len(q) = n - 1}, x \in S}

Statement(name, phone, date, amount) ==
    << Line("mingcheng", name \o <<32>>), Line("haoma", phone),
       Line("zhangqi", date), Line("xiaoxie", amount) >>
File(sub, base, pages, text) == [path |-> <<sub, base>>, pages |-> pages, text |-> text]

\* frontend.py: the names of the two output files.
output_filenames == [stats |-> "output-results.xlsx", pdf |-> "output-jpg-a4.pdf"]
OutputBasenames == {output_filenames[k] : k \in DOMAIN output_filenames}

FilePool ==
    { File("", "a.pdf", 1, Statement(StrZhangSan, Phone1, Date202301, Amount10000)),
      File("", "b.pdf", 1, Statement(StrZhangSan, Phone1, Date202302, Amount5000)),
      File("sub", "c.pdf", 1, Statement(StrZhangSan, Phone1, Date202304, Amount3000)),
      File("", "d.pdf", 1, Statement(StrLiSi, Phone2, Date202301, Amount10000)),
      File("sub", "e.pdf", 1, Statement(StrZhangSan, Phone2, Date202301, Amount5000)),
      File("", "f.pdf", 1, Statement(StrShanDongZhangSan, Phone1, Date202301, Amount3000)),
      File("", "g.pdf", 1, Statement(StrLiSi, Phone2, Date202313, Amount5000)),
      File("", "m.pdf", 3, Statement(StrLiSi, Phone1, Date202301, Amount10000)),
      File("", "x.pdf", 1, <<Line("mingcheng", StrLiSi \o <<32>>), Line("haoma", Phone2)>>),
      File("", "output-jpg-a4.pdf", 2, <<>>) }

Range(s) == {s[i] : i \in DOMAIN s}
Directories ==
    {d \in SeqsUpTo(FilePool, MaxFiles) : \A i, j \in DOMAIN d : i # j => d[i] # d[j]}

(***************************************************************************)
(* MPrinterGUI (frontend.py).  An entry is a sequence of characters.       *)
(***************************************************************************)
\* str.strip() for the blank the entries can hold.
RECURSIVE Strip(_)
Strip(e) ==
    IF e = <<>> THEN e
    ELSE IF IsSpace(e[1]) THEN Strip(Tail(e))
    ELSE IF IsSpace(e[Len(e)]) THEN Strip(SubSeq(e, 1, Len(e) - 1))
    ELSE e

\* None, which no entry holds.
NoneValue == <<0>>
setting_keys == {"input_dir", "output_dir", "dpi", "recursive", "do_analysis"}
\* self.settings as __init__ leaves it.
InitialSettings ==
    [input_dir |-> NoneValue, output_dir |-> NoneValue, dpi |-> 600,
     recursive |-> TRUE, do_analysis |-> TRUE]

DirIn == <<47, 105, 110>>
DirOut == <<47, 111, 117, 116>>
Widgets ==
    [input_dir : {<<>>, <<32>>, DirIn \o <<32>>}, output_dir : {<<>>, DirOut},
     dpi : {<<54, 48, 48>>, <<51, 48, 48>>}, recursive : BOOLEAN, do_analysis : BOOLEAN]

fill_input(w) ==
    [input_dir |-> Strip(w.input_dir), output_dir |-> Strip(w.output_dir),
     dpi |-> IF w.dpi # <<>> THEN IntOfStr(w.dpi) ELSE w.dpi,
     recursive |-> w.recursive, do_analysis |-> w.do_analysis]

RunOutcome(st, boxes, called, was, last) ==
    [settings |-> st, boxes |-> boxes, called |-> called, was_run |-> was,
     last_settings |-> last]

\* MPrinterGUI.run, for what the widgets hold (w), self.was_run (was) and
\* self.last_settings (last), the answer to the yes/no box (yes), and whether
\* print_invoice (backend_ok) and the load of the results (table_ok) go well.
run(w, was, last, yes, backend_ok, table_ok) ==
    LET st == fill_input(w)
        output_box == IF st.output_dir = <<>>
                      THEN <<"Please select output folder!">> ELSE <<>>
        any_change_flag == \E k \in setting_keys : st[k] # last[k]
        asked == was /\ ~any_change_flag
        boxes == output_box \o (IF asked THEN <<"No changes of settings since last run">>
                                ELSE <<>>)
    IN IF st.input_dir = <<>>
       THEN RunOutcome(st, <<"Please select input PDFs folder!">>, FALSE, was, last)
       ELSE IF asked /\ ~yes
       THEN RunOutcome(st, boxes, FALSE, was, last)
       ELSE IF ~backend_ok
       THEN RunOutcome(st, boxes \o <<"print_invoice failed">>, TRUE, was, last)
       ELSE IF ~table_ok
       THEN RunOutcome(st, boxes \o <<"load_workbook failed">>, TRUE, was, last)
       ELSE RunOutcome(st, boxes, TRUE, TRUE, st)

NoRun == [boxes |-> <<>>, called |-> FALSE, was_run |-> FALSE,
          last_settings |-> InitialSettings]
GuiIdle ==
    /\ widgets = [input_dir |-> <<>>, output_dir |-> <<>>, dpi |-> <<54, 48, 48>>,
                  recursive |-> TRUE, do_analysis |-> TRUE]
    /\ settings = InitialSettings /\ was_run = FALSE /\ last_settings = InitialSettings
    /\ invoked = <<>> /\ gui_out = NoRun /\ runs = 0

(***************************************************************************)
(* A call of parse_text.                                                   *)
(***************************************************************************)
Outcome(called, r) == [called |-> called, ret |-> r.ret, exc |-> r.exc, logs |-> r.logs]
NotCalled == Outcome(FALSE, [ret |-> NoReturn, exc |-> NoExc, logs |-> <<>>])
NoBox == [called |-> FALSE, box_top_left |-> <<0, 0>>, im_re_size |-> NoResize]

ParseIdle == text_str = <<>> /\ parse_out = NotCalled
BoxIdle ==
    /\ box_image_size = <<1, 1>> /\ box_a4_size = <<1, 1>> /\ box_top = TRUE
    /\ box_out = NoBox
    /\ pasted = <<>>
RunIdle ==
    /\ input_dir = <<>> /\ recursive = TRUE /\ do_analysis = TRUE /\ pc = "idle"
    /\ pdfs = <<>> /\ queried = <<>> /\ texted = <<>> /\ results = <<>>
    /\ sheet_rows = <<>> /\ xlsx = <<>> /\ out_pdf = <<>> /\ exc = NoExc
    /\ text_env = "ok" /\ tmp_files = {}

InitParse ==
    /\ text_str \in SeqsUpTo(LinePool, MaxLines)
    /\ parse_out = NotCalled
    /\ BoxIdle /\ RunIdle /\ GuiIdle

ParseTextCall ==
    /\ parse_out.called = FALSE
    /\ parse_out' = Outcome(TRUE, parse_text(text_str))
    /\ UNCHANGED <<text_str, boxVars, runVars, guiVars>>

NextParse == ParseTextCall

SpecParse == InitParse /\ [][NextParse]_vars

(***************************************************************************)
(* A call of box_from_a4 (from place_one_jpg_on_a4_page).                  *)
(***************************************************************************)
InitBox ==
    /\ box_image_size \in (1..MaxImage) \X (1..MaxImage)
    /\ box_a4_size \in (1..MaxA4W) \X (1..MaxA4H)
    /\ box_top \in BOOLEAN
    /\ box_out = NoBox
    /\ pasted = <<>>
    /\ ParseIdle /\ RunIdle /\ GuiIdle

BoxFromA4Call ==
    /\ box_out.called = FALSE
    /\ LET r == box_from_a4(box_image_size, box_a4_size, box_top)
       IN box_out' = [called |-> TRUE, box_top_left |-> r.box_top_left,
                      im_re_size |-> r.im_re_size]
    /\ UNCHANGED <<box_image_size, box_a4_size, box_top, pasted, parseVars, runVars, guiVars>>

NextBox == BoxFromA4Call

SpecBox == InitBox /\ [][NextBox]_vars

(***************************************************************************)
(* One page of to_a4_jpg_pdf (lines 243-246): an image is placed on the    *)
(* upper half and then another one on the lower half of the same page.     *)
(***************************************************************************)
\* place_one_jpg_on_a4_page: the paste call it makes for what box_from_a4
\* returned, with the size of what is pasted (the resized image when
\* box_from_a4 gives a size).
PasteArgs == [box_top_left : Int \X Int, im_re_size : Seq(Nat)] \X (Nat \X Nat) \X BOOLEAN
PasteCall[a \in PasteArgs] ==
    [box |-> a[1].box_top_left,
     size |-> IF a[1].im_re_size # NoResize THEN a[1].im_re_size ELSE a[2],
     resized |-> a[1].im_re_size # NoResize,
     top_or_bottom |-> a[3]]
place_one_jpg_on_a4_page(image_size, a4_size, top_or_bottom) ==
    PasteCall[<<box_from_a4(image_size, a4_size, top_or_bottom), image_size, top_or_bottom>>]

\* What box_from_a4 returned for a paste call.
Returned(q) ==
    [called |-> TRUE, box_top_left |-> q.box,
     im_re_size |-> IF q.resized THEN q.size ELSE NoResize]

InitPage ==
    /\ box_image_size \in (1..MaxPageImage) \X (1..MaxPageImage)
    /\ box_a4_size \in (1..MaxPageW) \X (1..MaxPageH)
    /\ box_top = TRUE
    /\ box_out = NoBox
    /\ pasted = <<>>
    /\ ParseIdle /\ RunIdle /\ GuiIdle

PlaceUpper ==
    /\ pasted = <<>>
    /\ pasted' = <<place_one_jpg_on_a4_page(box_image_size, box_a4_size, TRUE)>>
    /\ box_out' = Returned(pasted'[1])
    /\ UNCHANGED <<box_image_size, box_a4_size, box_top, parseVars, runVars, guiVars>>

PlaceLower ==
    /\ Len(pasted) = 1
    /\ \E next_size \in (1..MaxPageImage) \X (1..MaxPageImage) :
          /\ box_image_size' = next_size
          /\ pasted' = Append(pasted,
                              place_one_jpg_on_a4_page(next_size, box_a4_size, FALSE))
    /\ box_top' = FALSE
    /\ box_out' = Returned(pasted'[2])
    /\ UNCHANGED <<box_a4_size, parseVars, runVars, guiVars>>

NextPage == PlaceUpper \/ PlaceLower

SpecPage == InitPage /\ [][NextPage]_vars

(***************************************************************************)
(* A run of print_invoice.                                                 *)
(***************************************************************************)
\* The ways pdftotext_from_path and the read of its output can go: "ok", Popen
\* raises OSError (pdftotext cannot be started), the text is not valid UTF-8.
TextEnvs == {"ok", "oserror", "decode_error"}
OSError == [type |-> "OSError", message |-> <<[lit |-> "pdftotext"]>>]
UnicodeDecodeError == [type |-> "UnicodeDecodeError", message |-> <<[lit |-> "utf-8"]>>]

\* The name NamedTemporaryFile gives the file made for one PDF (fresh per call).
TempName(pdf) == <<"tmp", pdf.path>>

\* to_text_str: the text, or the exception, and the temporary files that
\* exist when the call is over.
to_text_str(pdf, env, existing) ==
    LET created == existing \cup {TempName(pdf)}
    IN IF env = "oserror"
       THEN [ret |-> <<>>, exc |-> OSError, tmp_files |-> created]
       ELSE IF env = "decode_error"
       THEN [ret |-> <<>>, exc |-> UnicodeDecodeError, tmp_files |-> created]
       ELSE [ret |-> pdf.text, exc |-> NoExc, tmp_files |-> created \ {TempName(pdf)}]

FileAt(path) == CHOOSE f \in Range(input_dir) : f.path = path
IndexError == [type |-> "IndexError", message |-> <<[lit |-> "list index out of range"]>>]

Init ==
    /\ input_dir \in Directories
    /\ recursive \in BOOLEAN
    /\ do_analysis \in BOOLEAN
    /\ pc = "find_pdfs"
    /\ pdfs = <<>> /\ queried = <<>> /\ texted = <<>> /\ results = <<>>
    /\ sheet_rows = <<>> /\ xlsx = <<>> /\ out_pdf = <<>> /\ exc = NoExc
    /\ text_env \in TextEnvs
    /\ tmp_files = {}
    /\ ParseIdle /\ BoxIdle /\ GuiIdle

\* Line 502: pdfs = find_pdfs(input_dir, recursive, output_filenames.values()).
FindPdfs ==
    /\ pc = "find_pdfs"
    /\ LET r == find_pdfs(input_dir, recursive, OutputBasenames)
       IN /\ queried' = [i \in DOMAIN r.queried |-> r.queried[i].path]
          /\ pdfs' = [i \in DOMAIN r.ret |-> r.ret[i].path]
          /\ exc' = r.exc
          /\ pc' = IF r.exc # NoExc THEN "raised"
                   ELSE IF do_analysis THEN "extract" ELSE "convert"
    /\ UNCHANGED <<input_dir, recursive, do_analysis, texted, results, sheet_rows, xlsx,
                   out_pdf, text_env, tmp_files, parseVars, boxVars, guiVars>>

\* A variant of ExtractOne that drops a document whose text does not parse
\* and goes on with the next one.
ExtractOneBestEffort ==
    /\ pc = "extract"
    /\ Len(results) < Len(pdfs)
    /\ LET pdf_path == pdfs[Len(results) + 1]
           r == parse_text(FileAt(pdf_path).text)
       IN /\ texted' = Append(texted, pdf_path)
          /\ results' = IF r.exc = NoExc THEN Append(results, r.ret \o <<pdf_path>>)
                        ELSE results
          /\ pdfs' = IF r.exc = NoExc THEN pdfs
                     ELSE SelectSeq(pdfs, LAMBDA q : q # pdf_path)
    /\ UNCHANGED <<input_dir, recursive, do_analysis, pc, exc, queried, sheet_rows, xlsx,
                   out_pdf, text_env, tmp_files, parseVars, boxVars, guiVars>>

\* Lines 509-511: one iteration of the extraction loop.
ExtractOne ==
    /\ pc = "extract"
    /\ Len(results) < Len(pdfs)
    /\ LET pdf_path == pdfs[Len(results) + 1]
           t == to_text_str(FileAt(pdf_path), text_env, tmp_files)
           r == parse_text(t.ret)
       IN /\ texted' = Append(texted, pdf_path)
          /\ tmp_files' = t.tmp_files
          /\ IF t.exc # NoExc
             THEN /\ exc' = t.exc
                  /\ pc' = "raised"
                  /\ UNCHANGED results
             ELSE IF r.exc = NoExc
             THEN /\ results' = Append(results, r.ret \o <<pdf_path>>)
                  /\ UNCHANGED <<pc, exc>>
             ELSE /\ exc' = r.exc
                  /\ pc' = "raised"
                  /\ UNCHANGED results
    /\ UNCHANGED <<input_dir, recursive, do_analysis, pdfs, queried, sheet_rows, xlsx,
                   out_pdf, text_env, parseVars, boxVars, guiVars>>

\* Lines 513-538: aggregate, sort, save the spreadsheet.
Aggregate ==
    /\ pc = "extract"
    /\ Len(results) = Len(pdfs)
    /\ sheet_rows' = Aggregated(results)
    /\ xlsx' = <<save_to_excel(sheet_rows')>>
    /\ pc' = "convert"
    /\ UNCHANGED <<input_dir, recursive, do_analysis, pdfs, queried, texted, results,
                   out_pdf, exc, text_env, tmp_files, parseVars, boxVars, guiVars>>

\* Lines 539-545: one image per discovered file, composed two per page;
\* pages[0] of an empty list raises IndexError.
ConvertAndCompose ==
    /\ pc = "convert"
    /\ IF pdfs = <<>>
       THEN /\ exc' = IndexError
            /\ pc' = "raised"
            /\ UNCHANGED out_pdf
       ELSE /\ out_pdf' = ComposedPages(pdfs)
            /\ pc' = "done"
            /\ UNCHANGED exc
    /\ UNCHANGED <<input_dir, recursive, do_analysis, pdfs, queried, texted, results,
                   sheet_rows, xlsx, text_env, tmp_files, parseVars, boxVars, guiVars>>

Next == FindPdfs \/ ExtractOne \/ Aggregate \/ ConvertAndCompose

Spec == Init /\ [][Next]_vars

(***************************************************************************)
(* The window: the user edits the widgets and presses Run.                 *)
(***************************************************************************)
InitGui ==
    /\ widgets \in Widgets
    /\ settings = InitialSettings /\ was_run = FALSE /\ last_settings = InitialSettings
    /\ invoked = <<>> /\ gui_out = NoRun /\ runs = 0
    /\ ParseIdle /\ BoxIdle /\ RunIdle

EditWidgets ==
    /\ runs < MaxRuns
    /\ \E w \in Widgets : w # widgets /\ widgets' = w
    /\ UNCHANGED <<settings, was_run, last_settings, invoked, gui_out, runs,
                   parseVars, boxVars, runVars>>

\* The Run button.
Run ==
    /\ runs < MaxRuns
    /\ \E yes, backend_ok, table_ok \in BOOLEAN :
          LET o == run(widgets, was_run, last_settings, yes, backend_ok, table_ok)
          IN /\ settings' = o.settings
             /\ was_run' = o.was_run
             /\ last_settings' = o.last_settings
             /\ invoked' = IF o.called THEN Append(invoked, o.settings) ELSE invoked
             /\ gui_out' = [boxes |-> o.boxes, called |-> o.called, was_run |-> was_run,
                            last_settings |-> last_settings]
    /\ runs' = runs + 1
    /\ UNCHANGED <<widgets, parseVars, boxVars, runVars>>

NextGui == EditWidgets \/ Run

SpecGui == InitGui /\ [][NextGui]_vars

(***************************************************************************)
(* Properties of save_to_excel and of the rows print_invoice hands to it.  *)
(***************************************************************************)
Written == xlsx # <<>>
Cells == xlsx[1].cells
Merges == xlsx[1].merges
DataRows == FirstDataRow..(Len(Cells) + 1)
CellAt(r, c) == Cells[r - 1][c]
MergesOf(column) == {m \in Range(Merges) : m.column = column}
KeyAt(r, cols) == [i \in DOMAIN cols |-> CellAt(r, cols[i])]
RowsWithKeyOf(r, cols) == {q \in DataRows : KeyAt(q, cols) = KeyAt(r, cols)}
RECURSIVE SumOver(_, _)
SumOver(rows, c) ==
    IF rows = {} THEN 0
    ELSE LET r == CHOOSE q \in rows : TRUE
         IN CellAt(r, c) + SumOver(rows \ {r}, c)
ExactGroup(m, cols) ==
    /\ m.start_row \in DataRows
    /\ m.start_row..m.end_row = RowsWithKeyOf(m.start_row, cols)
    /\ m.value = <<SumOver(RowsWithKeyOf(m.start_row, cols), 5)>>

\* C1: in the written spreadsheet every merged range of column 6 covers
\* exactly the data rows that share its (person, period_label, phone) key and
\* carries the sum of their amounts, and every merged range of column 7
\* covers exactly the data rows that share its (person, period_label) key and
\* carries the sum of their amounts.
C1_GroupSums ==
    Written =>
        /\ \A m \in MergesOf(6) : ExactGroup(m, <<1, 2, 3>>)
        /\ \A m \in MergesOf(7) : ExactGroup(m, <<1, 2>>)
        /\ \A r \in DataRows :
              /\ \E m \in MergesOf(6) : r \in m.start_row..m.end_row
              /\ \E m \in MergesOf(7) : r \in m.start_row..m.end_row

\* A spreadsheet where one period total adds up two phone totals, one of
\* them the total of a single row, and where the rows were not discovered in
\* sheet order.
C1_Witness ==
    /\ Written
    /\ \E m \in MergesOf(7) : \E k \in MergesOf(6) :
          /\ m.start_row = k.start_row /\ k.end_row < m.end_row
          /\ m.value[1] > k.value[1]
    /\ \E i \in DOMAIN results : results[i][5] # sheet_rows[i][8]

Inside(f, g) == g.start_row <= f.start_row /\ f.end_row <= g.end_row
Tiles(column) ==
    LET ms == MergesOf(column)
    IN /\ \A m \in ms : m.start_row <= m.end_row
       /\ \A r \in DataRows :
             Cardinality({m \in ms : r \in m.start_row..m.end_row}) = 1
       /\ \A m \in ms : m.start_row..m.end_row \subseteq DataRows
NestedIn(fine, coarse) ==
    /\ \A f \in MergesOf(fine) :
          Cardinality({g \in MergesOf(coarse) : Inside(f, g)}) = 1
    /\ \A g \in MergesOf(coarse) :
          g.start_row..g.end_row =
              UNION {f.start_row..f.end_row : f \in {h \in MergesOf(fine) : Inside(h, g)}}

\* C2: the merged ranges of each of the three levels (phone: columns 3 and
\* 6, period: columns 2 and 7, person: column 1) tile the data rows 2..n+1
\* without gap or overlap, every range of a finer level lies in exactly one
\* range of each coarser level, and a coarser range is the union of the finer
\* ranges inside it.
C2_NestedTiling ==
    Written =>
        /\ \A c \in {1, 2, 3, 6, 7} : Tiles(c)
        /\ {<<m.start_row, m.end_row>> : m \in MergesOf(3)}
              = {<<m.start_row, m.end_row>> : m \in MergesOf(6)}
        /\ {<<m.start_row, m.end_row>> : m \in MergesOf(2)}
              = {<<m.start_row, m.end_row>> : m \in MergesOf(7)}
        /\ {m.column : m \in Range(Merges)} \subseteq {1, 2, 3, 6, 7}
        /\ NestedIn(6, 7) /\ NestedIn(7, 1) /\ NestedIn(6, 1)

\* A person range that holds two period ranges, one of which holds two
\* phone ranges.
C2_Witness ==
    /\ Written
    /\ \E g \in MergesOf(1) : \E p \in MergesOf(7) : \E f \in MergesOf(6) :
          /\ Inside(p, g) /\ p.end_row < g.end_row
          /\ Inside(f, p) /\ f.end_row < p.end_row

SheetKey(row) == <<row[1], row[2], row[6]>>
DiscoveryIndex(path) == CHOOSE i \in DOMAIN pdfs : pdfs[i] = path

\* C3: the rows handed to rendering are a permutation of the extracted
\* records, in non-decreasing order of (person_name, period_label,
\* phone_number), and rows with equal keys keep their discovery order.
C3_SortedStable ==
    Written =>
        /\ Len(sheet_rows) = Len(results)
        /\ \A i \in DOMAIN results :
              Cardinality({j \in DOMAIN sheet_rows :
                              /\ sheet_rows[j][8] = results[i][5]
                              /\ sheet_rows[j][1] = results[i][1]
                              /\ sheet_rows[j][6] = results[i][2]
                              /\ sheet_rows[j][5] = results[i][3]}) = 1
        /\ \A j \in DOMAIN sheet_rows :
              j > 1 => ~TupleLess(SheetKey(sheet_rows[j]), SheetKey(sheet_rows[j - 1]))
        /\ \A i, j \in DOMAIN sheet_rows :
              (i < j /\ SheetKey(sheet_rows[i]) = SheetKey(sheet_rows[j]))
                  => DiscoveryIndex(sheet_rows[i][8]) < DiscoveryIndex(sheet_rows[j][8])

\* Two rows with the same key, and a row that the sort moved in front of a
\* row discovered before it.
C3_Witness ==
    /\ Written
    /\ \E i, j \in DOMAIN sheet_rows :
          i < j /\ SheetKey(sheet_rows[i]) = SheetKey(sheet_rows[j])
    /\ \E i, j \in DOMAIN sheet_rows :
          i < j /\ DiscoveryIndex(sheet_rows[i][8]) > DiscoveryIndex(sheet_rows[j][8])

(***************************************************************************)
(* Properties of parse_text.                                               *)
(***************************************************************************)
Matched ==
    [name |-> SearchName(text_str) # NoMatch, phone |-> SearchPhone(text_str) # NoMatch,
     date |-> SearchDate(text_str) # NoMatch, amount |-> SearchAmount(text_str) # NoMatch]
AllMatched == Matched.name /\ Matched.phone /\ Matched.date /\ Matched.amount

\* C4: parse_text returns a 4-tuple (name, phone, date, amount) exactly when
\* all four patterns match the text; in every other case it raises
\* MinvoiceException and returns nothing, whichever fields did match.
C4_AllOrNothing ==
    parse_out.called =>
        /\ (parse_out.ret # NoReturn) <=> AllMatched
        /\ (parse_out.exc # NoExc) <=> ~AllMatched
        /\ parse_out.ret # NoReturn =>
              /\ Len(parse_out.ret) = 4
              /\ \A i \in 1..4 : parse_out.ret[i] # NoMatch
              /\ parse_out.ret[2] = SearchPhone(text_str)
              /\ parse_out.ret[3] = SearchDate(text_str)
              /\ parse_out.ret[4] = SearchAmount(text_str)
        /\ parse_out.exc # NoExc =>
              /\ parse_out.exc.type = "MinvoiceException"
              /\ parse_out.ret = NoReturn

\* A call that raised although three of the four fields matched.
C4_Witness ==
    /\ parse_out.called
    /\ Matched.name /\ Matched.phone /\ Matched.date /\ ~Matched.amount
    /\ parse_out.exc # NoExc

\* A call that returned the four fields.
C4_WitnessReturn == parse_out.called /\ AllMatched /\ parse_out.ret # NoReturn

FieldPhrase ==
    [name |-> "Cannot extract user name", phone |-> "Cannot extract user phone number",
     date |-> "Cannot extract user billing date",
     amount |-> "Cannot extract user billing amount"]
Fields == {"name", "phone", "date", "amount"}
Missing ==
    (IF SearchName(text_str) = NoMatch THEN {"name"} ELSE {})
    \cup (IF SearchPhone(text_str) = NoMatch THEN {"phone"} ELSE {})
    \cup (IF SearchDate(text_str) = NoMatch THEN {"date"} ELSE {})
    \cup (IF SearchAmount(text_str) = NoMatch THEN {"amount"} ELSE {})
MessageNames(f) ==
    \E i \in DOMAIN parse_out.exc.message :
        parse_out.exc.message[i] = [lit |-> FieldPhrase[f]]
ErrorLogs == SelectSeq(parse_out.logs, LAMBDA l : l.level = "error")

Candidates ==
    {f \in Range(glob(input_dir, recursive)) : basename(f.path) \notin OutputBasenames}
NothingProduced == texted = <<>> /\ results = <<>> /\ xlsx = <<>> /\ out_pdf = <<>>

\* C6: when a candidate file that is not excluded has another page count
\* than 1, find_pdfs raises MinvoiceException and returns no path list, and
\* the run stops there: no text is extracted, no spreadsheet is written and
\* no document is composed.
C6_PageCountFailFast ==
    (pc # "find_pdfs" /\ \E f \in Candidates : f.pages # 1) =>
        /\ pc = "raised"
        /\ exc.type = "MinvoiceException"
        /\ pdfs = <<>>
        /\ NothingProduced

\* A run stopped by a three-page file that lies among two one-page files.
C6_Witness ==
    /\ pc = "raised"
    /\ \E f \in Candidates : f.pages = 3
    /\ Cardinality({f \in Candidates : f.pages = 1}) = 2
    /\ exc.type = "MinvoiceException"

NotFound == MinvoiceException(<<[lit |-> "No invoice PDF file found!"]>>)

\* C7 as stated: find_pdfs raises the not-found MinvoiceException whenever no
\* candidate is left after the exclusion, and never returns an empty list.
C7_NotFoundWhenNoCandidates ==
    pc # "find_pdfs" =>
        /\ Candidates = {} => (pc = "raised" /\ exc = NotFound /\ NothingProduced)
        /\ exc = NoExc => pdfs # <<>>

Parses(path) == parse_text(FileAt(path).text).exc = NoExc

Fails(path) == text_env # "ok" \/ ~Parses(path)
ExtractionFailure(path) ==
    IF text_env = "oserror" THEN OSError
    ELSE IF text_env = "decode_error" THEN UnicodeDecodeError
    ELSE parse_text(FileAt(path).text).exc

\* C8: with the analysis on, the first document whose extraction fails ends
\* the batch, whatever its position: the run raises that document's failure
\* (the MinvoiceException of parse_text when the text was recovered), no
\* later document is extracted, and neither the spreadsheet nor the composed
\* document is produced.
C8_BatchAborts ==
    do_analysis =>
        /\ \A j \in DOMAIN texted : \A i \in 1..(j - 1) : ~Fails(texted[i])
        /\ \A p \in Range(texted) :
              Fails(p) =>
                  /\ pc = "raised"
                  /\ exc = ExtractionFailure(p)
                  /\ exc # NoExc
                  /\ text_env = "ok" => exc.type = "MinvoiceException"
        /\ (\E p \in Range(queried) : Fails(p)) =>
              /\ xlsx = <<>> /\ out_pdf = <<>> /\ sheet_rows = <<>>
              /\ pc # "done"
        /\ \A i \in DOMAIN texted : texted[i] = queried[i]

\* A batch of three aborted by its last document after two good ones.
C8_Witness ==
    /\ do_analysis
    /\ pc = "raised"
    /\ Len(texted) = 3 /\ Len(results) = 2
    /\ ~Parses(texted[3])

(***************************************************************************)
(* Properties of box_from_a4.                                              *)
(***************************************************************************)
im_w == box_image_size[1]
im_h == box_image_size[2]
a4_w == box_a4_size[1]
a4_h == box_a4_size[2]
PasteSize == IF box_out.im_re_size = NoResize THEN box_image_size ELSE box_out.im_re_size
PasteX == box_out.box_top_left[1]
PasteY == box_out.box_top_left[2]
NeedsResize == im_w > a4_w \/ 2 * im_h > a4_h

\* C9 as stated: an image of exactly the canvas width and half the canvas
\* height is neither scaled nor overflowing: the unscaled branch is taken and
\* the pasted rectangle stays inside the canvas and inside its own half, for
\* the upper and for the lower half.
C9_HalfSizeFits ==
    (box_out.called /\ im_w = a4_w /\ 2 * im_h = a4_h) =>
        /\ box_out.im_re_size = NoResize
        /\ PasteX >= 0 /\ PasteX + im_w <= a4_w
        /\ PasteY >= 0 /\ PasteY + im_h <= a4_h
        /\ box_top => 2 * (PasteY + im_h) <= a4_h
        /\ ~box_top => 2 * PasteY >= a4_h

WidthRules == im_w * a4_h >= 2 * im_h * a4_w
ScaledAsStated ==
    IF WidthRules THEN <<a4_w, (im_h * a4_w) \div im_w>>
    ELSE <<(im_w * a4_h) \div (2 * im_h), a4_h \div 2>>

\* C10 as stated: when the image is wider than the canvas or taller than
\* half of it, the scaled size is both dimensions divided by the larger of
\* the two ratios, truncated, so that the dimension with the larger ratio
\* fills the canvas width or half-height; the x offset is (canvas width -
\* scaled width) div 2 and the y offset is (canvas height - 2 * scaled
\* height) div 4 for the upper half and (canvas height - 2 * scaled height)
\* div 2 + scaled height for the lower half.
C10_ScaledToFill ==
    (box_out.called /\ NeedsResize) =>
        /\ box_out.im_re_size = ScaledAsStated
        /\ PasteX = (a4_w - PasteSize[1]) \div 2
        /\ PasteY = IF box_top THEN (a4_h - 2 * PasteSize[2]) \div 4
                    ELSE (a4_h - 2 * PasteSize[2]) \div 2 + PasteSize[2]

(***************************************************************************)
(* Properties of to_a4_jpg_pdf.                                            *)
(***************************************************************************)
Composed == pc = "done"
\* The halves of the composed pages on which image i was pasted.
PastesOf(i) ==
    {<<k, h>> \in (DOMAIN out_pdf) \X {"top", "bottom"} :
        IF h = "top" THEN out_pdf[k].top = <<pdfs[i]>> ELSE out_pdf[k].bottom = <<pdfs[i]>>}

\* C11: for n >= 1 source pages the composed document has ceil(n / 2) pages
\* in order; every source page is pasted exactly once, the pages at even
\* 0-based positions 2k in the upper half and those at 2k + 1 in the lower
\* half of page k, and for odd n the last page has nothing pasted on its
\* lower half.
C11_TwoPerPage ==
    Composed =>
        LET n == Len(pdfs)
        IN /\ n >= 1
           /\ 2 * Len(out_pdf) \in {n, n + 1}
           /\ \A i \in 1..n :
                 PastesOf(i) = {<<(i + 1) \div 2, IF i % 2 = 1 THEN "top" ELSE "bottom">>}
           /\ \A k \in DOMAIN out_pdf :
                 /\ Len(out_pdf[k].top) = 1
                 /\ Len(out_pdf[k].bottom) = (IF 2 * k <= n THEN 1 ELSE 0)
           /\ n % 2 = 1 => out_pdf[Len(out_pdf)].bottom = <<>>

\* Three source pages composed on two pages, the second with an empty lower
\* half.
C11_Witness ==
    /\ Composed
    /\ Len(pdfs) = 3
    /\ Len(out_pdf) = 2
    /\ out_pdf[2].bottom = <<>>
    /\ out_pdf[2].top = <<pdfs[3]>>

(***************************************************************************)
(* Properties of year_and_quarter in the pipeline.                         *)
(***************************************************************************)
MonthOf(b_date) == IntOfStr(SubSeq(b_date, 5, 6))

\* C12 as stated: for every billing period the period pattern accepts, the
\* derived quarter is ((month - 1) div 3) + 1 for the month in the last two
\* digits and lies in 1..4, so every period label of the sheet names a
\* quarter between 1 and 4.
C12_QuarterInRange ==
    Written =>
        \A j \in DOMAIN sheet_rows :
            LET row == sheet_rows[j]
            IN /\ row[4] = (MonthOf(row[5]) - 1) \div 3 + 1
               /\ row[4] \in 1..4
               /\ \E q \in 1..4 :
                     row[2] = StrOfInt(row[3]) \o <<24180, 31532>> \o StrOfInt(q)
                                  \o <<23395, 24230>>

(***************************************************************************)
(* Property of the name parse_text returns.                                *)
(***************************************************************************)
\* C13: the name parse_text returns is the matched run unchanged when the
\* run has at most 3 characters and its last 3 characters when it has more
\* (4 included), so a returned name never has more than 3 characters.
C13_NameTruncated ==
    (parse_out.called /\ parse_out.ret # NoReturn) =>
        LET name_run == SearchName(text_str)
            n == Len(name_run)
        IN /\ name_run # NoMatch
           /\ n <= 3 => parse_out.ret[1] = name_run
           /\ n > 3 => parse_out.ret[1] = <<name_run[n - 2], name_run[n - 1], name_run[n]>>
           /\ Len(parse_out.ret[1]) <= 3

\* A returned name cut from a run of exactly four characters.
C13_Witness ==
    /\ parse_out.called
    /\ parse_out.ret # NoReturn
    /\ Len(SearchName(text_str)) = 4
    /\ parse_out.ret[1] = SubSeq(StrShanDongZhangSan, 2, 4)

\* Returned names from runs of three and of five characters.
C13_WitnessThree ==
    parse_out.called /\ parse_out.ret # NoReturn /\ parse_out.ret[1] = SearchName(text_str)
        /\ Len(SearchName(text_str)) = 3
C13_WitnessFive ==
    parse_out.called /\ parse_out.ret # NoReturn /\ Len(SearchName(text_str)) = 5
        /\ Len(parse_out.ret[1]) = 3

(***************************************************************************)
(* Property of the exclude set of find_pdfs.                               *)
(***************************************************************************)
Enumerated == glob(input_dir, recursive)
ExcludedPaths == {f.path : f \in {g \in Range(input_dir) : g.path[2] \in OutputBasenames}}
RECURSIVE KeptInOrder(_)
KeptInOrder(fs) ==
    IF fs = <<>> THEN <<>>
    ELSE IF fs[1].path \in ExcludedPaths THEN KeptInOrder(Tail(fs))
    ELSE <<fs[1].path>> \o KeptInOrder(Tail(fs))

\* C14: a file whose basename is one of the output file names never appears
\* in what find_pdfs returns and its page count is never queried, so it
\* cannot make the discovery fail; when every other enumerated file has one
\* page, find_pdfs returns exactly those files in enumeration order.
C14_ExcludedIgnored ==
    pc # "find_pdfs" =>
        /\ \A p \in ExcludedPaths : p \notin Range(pdfs) /\ p \notin Range(queried)
        /\ \A p \in ExcludedPaths : p \notin Range(texted)
        /\ (Enumerated # <<>> /\ \A f \in Range(Enumerated) :
                                   f.path \notin ExcludedPaths => f.pages = 1)
              => /\ pdfs = KeptInOrder(Enumerated)
                 /\ queried = KeptInOrder(Enumerated)
                 /\ exc # NoExc => Len(exc.message) # 3 \/ exc.message[1].lit # "Fatal error in processing PDF file "

\* A discovery that returned two files and passed over a two-page earlier
\* output lying between them.
C14_Witness ==
    /\ pc \notin {"find_pdfs", "raised"}
    /\ Len(Enumerated) = 3
    /\ Enumerated[2].path \in ExcludedPaths
    /\ Enumerated[2].pages = 2
    /\ pdfs = <<Enumerated[1].path, Enumerated[3].path>>

(***************************************************************************)
(* Property of the temporary file of to_text_str.                          *)
(***************************************************************************)
\* C15 as stated: the temporary text file of to_text_str is removed on every
\* path: once a call has returned the text or has raised (pdftotext cannot
\* be started, the text cannot be decoded), its temporary file is gone.
C15_TempFileRemoved ==
    \A i \in DOMAIN texted : TempName(FileAt(texted[i])) \notin tmp_files

(***************************************************************************)
(* Property of the paste calls on one page.                                *)
(***************************************************************************)
InsideCanvas(q) ==
    /\ q.box[1] >= 0 /\ q.box[1] + q.size[1] <= a4_w
    /\ q.box[2] >= 0 /\ q.box[2] + q.size[2] <= a4_h
Overlap(q, r) ==
    /\ q.size[1] > 0 /\ q.size[2] > 0 /\ r.size[1] > 0 /\ r.size[2] > 0
    /\ q.box[1] < r.box[1] + r.size[1] /\ r.box[1] < q.box[1] + q.size[1]
    /\ q.box[2] < r.box[2] + r.size[2] /\ r.box[2] < q.box[2] + q.size[2]

\* C16 as stated: for all positive image and page sizes, the rectangle at
\* which place_one_jpg_on_a4_page pastes an image (the offset and the scaled
\* or original size) lies inside the page, and the rectangles pasted on the
\* upper and on the lower half of one page do not overlap.
C16_VisibleNoOverlap ==
    /\ \A i \in DOMAIN pasted : InsideCanvas(pasted[i])
    /\ Len(pasted) = 2 => ~Overlap(pasted[1], pasted[2])

\* The two parts of C16 on their own.
C16_InsideCanvas == \A i \in DOMAIN pasted : InsideCanvas(pasted[i])
C16_NoOverlap == Len(pasted) = 2 => ~Overlap(pasted[1], pasted[2])

(***************************************************************************)
(* Property of the Run button.                                             *)
(***************************************************************************)
DirMissing(st) == st.input_dir = <<>> \/ st.output_dir = <<>>

\* C17 as stated: MPrinterGUI.run calls print_invoice only when the input
\* directory and the output directory settings are both non-empty; when one
\* of them is empty, run shows an error and returns without a call of
\* print_invoice and without a change of was_run or last_settings.
C17_RunGuard ==
    /\ \A i \in DOMAIN invoked : ~DirMissing(invoked[i])
    /\ (runs > 0 /\ DirMissing(settings)) =>
          /\ gui_out.boxes # <<>>
          /\ ~gui_out.called
          /\ was_run = gui_out.was_run
          /\ last_settings = gui_out.last_settings

\* The part of C17 about the input directory alone.
C17_InputGuard ==
    /\ \A i \in DOMAIN invoked : invoked[i].input_dir # <<>>
    /\ (runs > 0 /\ settings.input_dir = <<>>) =>
          /\ gui_out.boxes = <<"Please select input PDFs folder!">>
          /\ ~gui_out.called
          /\ was_run = gui_out.was_run
          /\ last_settings = gui_out.last_settings

====
